---- MODULE Spec2Model ----
(***************************************************************************)
(* LidarVisualizer (src/lidarplot.cpp): one LaserScan message in, one      *)
(* 500x500 frame out, shown in a window and appended to a video file.      *)
(*                                                                         *)
(* Numbers.  Lengths are integers in centimetres, so meter_per_pixel_      *)
(* (0.02 m) is 2 and a range of 3 is half a pixel past one pixel.  Angles  *)
(* are integers in quarter turns, where cos and sin are exactly 0, 1, -1.  *)
(* scan_time and time_increment are integers in one common unit.  A float  *)
(* that is not a number is the value NaN, on which every comparison is     *)
(* false.  int is 32 bits wide.  Float rounding is finer than half a pixel  *)
(* for every length of the model, so the sums and quotients are exact.     *)
(***************************************************************************)
EXTENDS Integers, Sequences, FiniteSets, TLC

VARIABLES
  pc,                \* "start" | "spinning" | "crashed" | "done"
  img_size_,         \* LidarVisualizer::img_size_
  meter_per_pixel_,  \* LidarVisualizer::meter_per_pixel_ (cm per pixel)
  center_,           \* LidarVisualizer::center_
  video_opened,      \* video_writer_.isOpened()
  warnings,          \* RCLCPP_WARN lines logged so far
  scan,              \* the message of the latest scanCallback
  count,             \* scanCallback's local count
  trace,             \* one entry per loop iteration of the latest scanCallback
  img,               \* scanCallback's local img
  displayed,         \* the frames handed to cv::imshow, in order
  written,           \* the frames handed to video_writer_.write, in order
  n_scans            \* messages delivered to scanCallback so far

vars == <<pc, img_size_, meter_per_pixel_, center_, video_opened, warnings,
          scan, count, trace, img, displayed, written, n_scans>>

----------------------------------------------------------------------------
\* Bounds of the model.

\* Scan messages delivered in one run.
MaxScans == 2
\* Longest ranges vector of a message.
MaxLen == 1
\* Reads past the end of ranges that return stale memory before the walk
\* leaves mapped memory.
MaxStale == 1
\* Longest ranges vector of a message of the geometry specification.
MaxGeomLen == 2

----------------------------------------------------------------------------
\* Values.

INT_MAX == 2147483647
INT_MIN == -INT_MAX - 1

\* The float that is not a number (std::isnan).
NaN == -1000000

Abs(n) == IF n < 0 THEN -n ELSE n

\* a < b on floats: false when either side is NaN.
FloatLess(a, b) == a # NaN /\ b # NaN /\ a < b

\* The conversion rounding down instead of toward zero.
TruncDiv_Floor(n, d) == n \div d

\* The integer part of the real n / d, d # 0 (a float-to-int conversion
\* rounds toward zero).
TruncDiv(n, d) ==
  LET q == Abs(n) \div Abs(d)
  IN  IF (n < 0) = (d < 0) THEN q ELSE -q

\* cos and sin of an angle given in quarter turns.
Cos4(a) == CASE a % 4 = 0 -> 1 [] a % 4 = 2 -> -1 [] OTHER -> 0
Sin4(a) == CASE a % 4 = 1 -> 1 [] a % 4 = 3 -> -1 [] OTHER -> 0

----------------------------------------------------------------------------
\* The image: the pixels that are not white, by colour.

\* cv::Mat img(img_size_, img_size_, CV_8UC3, cv::Scalar(255, 255, 255))
NewImage == [black |-> {}, red |-> {}]

Paint(im, pixels, colour) ==
  IF colour = "red"
  THEN [black |-> im.black \ pixels, red |-> im.red \cup pixels]
  ELSE [black |-> im.black \cup pixels, red |-> im.red \ pixels]

ColorAt(im, p) ==
  IF p \in im.red THEN "red" ELSE IF p \in im.black THEN "black" ELSE "white"

InImage(px, py) == px >= 0 /\ px < img_size_ /\ py >= 0 /\ py < img_size_

\* The pixels on the segment from p1 to p2 (horizontal or vertical), inside
\* the image.  cv::line with thickness 2 paints these and their neighbours
\* across the segment; the model keeps the segment itself.
LinePixels(p1, p2) ==
  { p \in ((IF p1[1] < p2[1] THEN p1[1]..p2[1] ELSE p2[1]..p1[1])
           \X (IF p1[2] < p2[2] THEN p1[2]..p2[2] ELSE p2[2]..p1[2])) :
      InImage(p[1], p[2]) }

\* The pixels of a filled circle of radius r around c, inside the image.
CirclePixels(c, r) ==
  { p \in ((c[1] - r)..(c[1] + r)) \X ((c[2] - r)..(c[2] + r)) :
      /\ (p[1] - c[1]) * (p[1] - c[1]) + (p[2] - c[2]) * (p[2] - c[2]) <= r * r
      /\ InImage(p[1], p[2]) }

\* The crosshair with its vertical segment left out.
DrawCrosshair_HorizontalOnly(im) ==
  Paint(im, LinePixels(<<center_.x - 5, center_.y>>, <<center_.x + 5, center_.y>>),
        "black")

\* The two cv::line calls of scanCallback.
DrawCrosshair(im) ==
  LET h == LinePixels(<<center_.x - 5, center_.y>>, <<center_.x + 5, center_.y>>)
      v == LinePixels(<<center_.x, center_.y - 5>>, <<center_.x, center_.y + 5>>)
  IN  Paint(Paint(im, h, "black"), v, "black")

----------------------------------------------------------------------------
\* scanCallback, step by step.

\* static_cast<int>(scan->scan_time / scan->time_increment): the values the
\* conversion can produce.  A zero time_increment makes the quotient +inf,
\* -inf or NaN, which int cannot hold: the conversion is then undefined, and
\* yields INT_MIN where the instruction reports an invalid result (x86-64)
\* and the saturated value, or 0 for NaN, where it saturates (AArch64).
CountCast(s) ==
  IF s.time_increment # 0 THEN {TruncDiv(s.scan_time, s.time_increment)}
  ELSE IF s.scan_time > 0 THEN {INT_MIN, INT_MAX}
  ELSE IF s.scan_time < 0 THEN {INT_MIN}
  ELSE {INT_MIN, 0}

\* The fallback taken for a negative count only.
SampleCount_NegativeOnly(c, s) == IF c < 0 THEN Len(s.ranges) ELSE c

\* if (count <= 0) count = scan->ranges.size();
SampleCount(c, s) == IF c <= 0 THEN Len(s.ranges) ELSE c

\* The validity test without its lower limit.
IsRejected_NoMinimum(range, s) == FloatLess(s.range_max, range) \/ range = NaN

\* if (range < range_min || range > range_max || std::isnan(range)) continue;
IsRejected(range, s) ==
  FloatLess(range, s.range_min) \/ FloatLess(s.range_max, range) \/ range = NaN

\* scan->angle_min + i * scan->angle_increment
AngleOf(s, i) == s.angle_min + i * s.angle_increment

\* The rotation with the sign of y_rot lost: (x, y) -> (y, x).
ToPixel_NoSignFlip(angle, range) ==
  LET x == range * Cos4(angle)
      y == range * Sin4(angle)
      x_rot == y
      y_rot == x
  IN  [x_rot |-> x_rot, y_rot |-> y_rot,
       px |-> TruncDiv(center_.x * meter_per_pixel_ + x_rot, meter_per_pixel_),
       py |-> TruncDiv(center_.y * meter_per_pixel_ - y_rot, meter_per_pixel_)]

\* Polar to Cartesian, the rotation (x, y) -> (y, -x), and the conversion to
\* a pixel: static_cast<int>(center_ +- offset / meter_per_pixel_).
ToPixel(angle, range) ==
  LET x == range * Cos4(angle)
      y == range * Sin4(angle)
      x_rot == y
      y_rot == -x
  IN  [x_rot |-> x_rot, y_rot |-> y_rot,
       px |-> TruncDiv(center_.x * meter_per_pixel_ + x_rot, meter_per_pixel_),
       py |-> TruncDiv(center_.y * meter_per_pixel_ - y_rot, meter_per_pixel_)]

\* What one loop iteration leaves in the trace.
Entry(i, angle, range, t, outcome) ==
  [i |-> i, angle |-> angle, range |-> range, x_rot |-> t.x_rot, y_rot |-> t.y_rot,
   px |-> t.px, py |-> t.py, outcome |-> outcome]

NoPixel == [x_rot |-> 0, y_rot |-> 0, px |-> 0, py |-> 0]

\* The for loop over i in [0, count).  mem is what scan->ranges[i] reads:
\* the vector's elements, followed by whatever lies behind them in memory.
\* A read behind the end of mem is a read of unmapped memory: the process
\* dies there.
RECURSIVE SampleLoop(_, _, _, _, _)
SampleLoop(s, mem, cnt, i, st) ==
  IF i >= cnt THEN st
  ELSE IF i >= Len(mem)
  THEN [st EXCEPT !.fault = TRUE,
                  !.trace = Append(@, Entry(i, AngleOf(s, i), NaN, NoPixel, "fault"))]
  ELSE
    LET angle == AngleOf(s, i)
        range == mem[i + 1]
    IN  IF IsRejected(range, s)
        THEN SampleLoop(s, mem, cnt, i + 1,
               [st EXCEPT !.trace = Append(@, Entry(i, angle, range, NoPixel, "rejected"))])
        ELSE
          LET t == ToPixel(angle, range)
          IN  IF InImage(t.px, t.py)
              THEN SampleLoop(s, mem, cnt, i + 1,
                     [st EXCEPT !.img = Paint(@, CirclePixels(<<t.px, t.py>>, 2), "red"),
                                !.trace = Append(@, Entry(i, angle, range, t, "drawn"))])
              ELSE SampleLoop(s, mem, cnt, i + 1,
                     [st EXCEPT !.trace = Append(@, Entry(i, angle, range, t, "clipped"))])

SeqsUpTo(S, n) == UNION { [1..k -> S] : k \in 0..n }

\* The floats a read behind the end of ranges can return.
StaleVals == {NaN, 2}

\* The memory behind ranges that the loop gets to read: nothing when count
\* stays within ranges, else up to MaxStale stale floats.
StaleReads(over) ==
  IF over <= 0 THEN {<<>>}
  ELSE SeqsUpTo(StaleVals, IF over < MaxStale THEN over ELSE MaxStale)

----------------------------------------------------------------------------
\* The operations.

NoScan == [angle_min |-> 0, angle_increment |-> 0, range_min |-> 0, range_max |-> 0,
           time_increment |-> 0, scan_time |-> 0, ranges |-> <<>>]

Init ==
  /\ pc = "start"
  /\ img_size_ = 0
  /\ meter_per_pixel_ = 0
  /\ center_ = [x |-> 0, y |-> 0]
  /\ video_opened = FALSE
  /\ warnings = 0
  /\ scan = NoScan
  /\ count = 0
  /\ trace = <<>>
  /\ img = NewImage
  /\ displayed = <<>>
  /\ written = <<>>
  /\ n_scans = 0

\* LidarVisualizer::LidarVisualizer.  video_writer_.open may fail.
Construct ==
  /\ pc = "start"
  /\ img_size_' = 500
  /\ meter_per_pixel_' = 2
  /\ center_' = [x |-> 500 \div 2, y |-> 500 \div 2]
  /\ \E ok \in BOOLEAN :
       /\ video_opened' = ok
       /\ warnings' = IF ok THEN warnings ELSE warnings + 1
  /\ pc' = "spinning"
  /\ UNCHANGED <<scan, count, trace, img, displayed, written, n_scans>>

\* LidarVisualizer::scanCallback on message s.
scanCallback(s) ==
  /\ pc = "spinning"
  /\ \E c \in CountCast(s) :
       LET cnt == SampleCount(c, s)
       IN  \E stale \in StaleReads(cnt - Len(s.ranges)) :
             \E res \in {SampleLoop(s, s.ranges \o stale, cnt, 0,
                            [img |-> DrawCrosshair(NewImage), trace |-> <<>>,
                             fault |-> FALSE])} :
                 /\ scan' = s
                 /\ count' = cnt
                 /\ trace' = res.trace
                 /\ img' = res.img
                 /\ IF res.fault
                    THEN /\ pc' = "crashed"
                         /\ UNCHANGED <<displayed, written>>
                    ELSE /\ pc' = pc
                         /\ displayed' = Append(displayed, res.img)
                         /\ written' = IF video_opened
                                       THEN Append(written, res.img)
                                       ELSE written
  /\ n_scans' = n_scans + 1
  /\ UNCHANGED <<img_size_, meter_per_pixel_, center_, video_opened, warnings>>

\* rclcpp::spin returns; main shuts down.
Shutdown ==
  /\ pc = "spinning"
  /\ pc' = "done"
  /\ UNCHANGED <<img_size_, meter_per_pixel_, center_, video_opened, warnings,
                 scan, count, trace, img, displayed, written, n_scans>>

----------------------------------------------------------------------------
\* The pipeline: messages that differ in what decides count and in which
\* samples are valid.

ScanTimes == {-1, 0, 1, 3}
TimeIncs == {-1, 0, 1, 2}
PipeRanges == {NaN, 2}

ScanMessages ==
  [angle_min : {0}, angle_increment : {1}, range_min : {1}, range_max : {4},
   time_increment : TimeIncs, scan_time : ScanTimes,
   ranges : SeqsUpTo(PipeRanges, MaxLen)]

ScanArrives ==
  /\ n_scans < MaxScans
  /\ \E s \in ScanMessages : scanCallback(s)

Next == Construct \/ ScanArrives \/ Shutdown

Spec == Init /\ [][Next]_vars

----------------------------------------------------------------------------
\* The geometry: one message whose samples lie at the centre, at the image
\* border and on either side of it, under every quarter-turn angle.

GeomRanges == {NaN, 0, 3, 4, 499, 500, 501, 502}

GeomMessages ==
  [angle_min : 0..3, angle_increment : {0, 1}, range_min : {0, 4},
   range_max : {501, 502}, time_increment : {1}, scan_time : {0},
   ranges : SeqsUpTo(GeomRanges, MaxGeomLen) \ {<<>>}]

GeomScanArrives ==
  /\ n_scans = 0
  /\ \E s \in GeomMessages : scanCallback(s)

NextGeom == Construct \/ GeomScanArrives \/ Shutdown

SpecGeom == Init /\ [][NextGeom]_vars

----------------------------------------------------------------------------
\* What the claims speak of.

\* The latest scanCallback ran to its end.
Completed == n_scans > 0 /\ pc # "crashed"

\* The frame of the latest scanCallback went to the window and, with the
\* writer open, to the recording.
FrameEmitted ==
  /\ Completed
  /\ displayed # <<>> /\ displayed[Len(displayed)] = img
  /\ video_opened => (written # <<>> /\ written[Len(written)] = img)

\* After iteration k of the loop the callback took its next step: iteration
\* k + 1, or, after the last one, the display and the recording.
NextStepTaken(k) ==
  /\ k < count => Len(trace) > k
  /\ k = count => FrameEmitted

\* The loop read a sample at iteration k.
SampleRead(k) == trace[k].outcome # "fault"

\* The sample is one the validity test is meant to refuse.
Invalid(range, s) ==
  IF range = NaN THEN TRUE ELSE range < s.range_min \/ range > s.range_max

\* p is the real n / d rounded toward zero (d > 0).
IsTruncation(p, n, d) ==
  IF n >= 0 THEN p * d <= n /\ n < (p + 1) * d
  ELSE (p - 1) * d < n /\ n <= p * d

\* The pixels of the two crosshair segments.
CrosshairSegments ==
  { <<x, center_.y>> : x \in (center_.x - 5)..(center_.x + 5) }
    \cup { <<center_.x, y>> : y \in (center_.y - 5)..(center_.y + 5) }

\* The centres of the discs the latest scanCallback drew.
DrawnCentres ==
  { <<trace[k].px, trace[k].py>> : k \in { j \in 1..Len(trace) : trace[j].outcome = "drawn" } }

----------------------------------------------------------------------------
\* C1: scanCallback reads ranges[i] only for indices i < len(ranges), for
\* every message, whatever count its scan_time and time_increment give.
C1_ReadsWithinRanges ==
  \A k \in 1..Len(trace) : trace[k].i < Len(scan.ranges)

\* C2: count is scan_time / time_increment rounded toward zero when that
\* integer is > 0, and len(ranges) when it is <= 0 (a quotient of -inf
\* included); with scan_time = 0 and time_increment = 1 the loop processes
\* exactly len(ranges) samples.
C2_CountPolicy ==
  n_scans > 0 =>
    LET st == scan.scan_time
        ti == scan.time_increment
        n  == Len(scan.ranges)
        Q  == { q \in 1..Abs(st) :
                  q * Abs(ti) <= Abs(st) /\ Abs(st) < (q + 1) * Abs(ti) }
        positive == ti # 0 /\ (st < 0) = (ti < 0) /\ Q # {}
    IN  /\ positive => count \in Q
        /\ (ti # 0 /\ ~positive) => count = n
        /\ (ti = 0 /\ st < 0) => count = n
        /\ (st = 0 /\ ti = 1) =>
             /\ Len(trace) = n
             /\ \A k \in 1..n : SampleRead(k) /\ trace[k].i = k - 1
             /\ FrameEmitted

C2_Witness ==
  /\ n_scans > 0
  /\ scan.scan_time = 0 /\ scan.time_increment = 1
  /\ Len(scan.ranges) > 0
  /\ count = Len(scan.ranges) /\ Len(trace) = Len(scan.ranges)
  /\ FrameEmitted

\* C3: with time_increment = 0, for any scan_time, the callback does not
\* crash, count falls back to len(ranges), and the frame is rendered,
\* displayed and recorded with exactly len(ranges) samples processed.
C3_ZeroIncrementFallsBack ==
  (n_scans > 0 /\ scan.time_increment = 0) =>
    /\ pc # "crashed"
    /\ count = Len(scan.ranges)
    /\ Len(trace) = Len(scan.ranges)
    /\ FrameEmitted

\* C4: a sample whose range is NaN, below range_min or above range_max gets
\* no disc, whatever its angle, and the callback goes on after it: to the
\* next sample, or after the last sample to the display and the recording.
C4_InvalidSampleSkipped ==
  /\ \A k \in 1..Len(trace) :
       (SampleRead(k) /\ Invalid(trace[k].range, scan)) =>
         /\ trace[k].outcome = "rejected"
         /\ NextStepTaken(k)
  /\ img.red = UNION { CirclePixels(c, 2) : c \in DrawnCentres }

C4_Witness ==
  /\ Len(trace) = 2
  /\ trace[1].outcome = "rejected"
  /\ trace[2].outcome = "drawn"
  /\ FrameEmitted

\* C5: for an accepted sample each pixel coordinate is the real value
\* center + offset / meter_per_pixel_ rounded toward zero; its disc is drawn
\* exactly when both coordinates lie in [0, img_size_), and a sample outside
\* is dropped with the callback going on after it.
C5_TruncatedAndClipped ==
  \A k \in 1..Len(trace) :
    (SampleRead(k) /\ trace[k].outcome # "rejected") =>
      LET e == trace[k]
      IN  /\ IsTruncation(e.px, center_.x * meter_per_pixel_ + e.x_rot, meter_per_pixel_)
          /\ IsTruncation(e.py, center_.y * meter_per_pixel_ - e.y_rot, meter_per_pixel_)
          /\ e.outcome \in {"drawn", "clipped"}
          /\ (e.outcome = "drawn") <=>
               (0 <= e.px /\ e.px < img_size_ /\ 0 <= e.py /\ e.py < img_size_)
          /\ (e.outcome = "drawn") => ColorAt(img, <<e.px, e.py>>) = "red"
          /\ NextStepTaken(k)

C5_Witness ==
  /\ Len(trace) = 2
  /\ trace[1].outcome = "clipped"
  /\ (trace[1].py = img_size_ \/ trace[1].px = -1)
  /\ trace[2].outcome = "drawn"
  /\ (trace[2].py = img_size_ - 1 \/ trace[2].px = 0)
  /\ FrameEmitted

\* C6 as stated: an accepted sample at angle 0 with range meter_per_pixel_ * k
\* maps to px = center_.x and py = center_.y - k (k pixels up).
C6_ForwardIsUp ==
  \A k \in 1..Len(trace) :
    (trace[k].outcome \in {"drawn", "clipped"} /\ trace[k].angle = 0
       /\ trace[k].range % meter_per_pixel_ = 0) =>
      /\ trace[k].px = center_.x
      /\ trace[k].py = center_.y - trace[k].range \div meter_per_pixel_

\* C6, amended: an accepted sample at angle 0 with range meter_per_pixel_ * k
\* that lands inside the image maps to px = center_.x and
\* py = center_.y + k (k pixels down).
C6_ForwardIsDown ==
  \A k \in 1..Len(trace) :
    (trace[k].outcome = "drawn" /\ trace[k].angle = 0
       /\ trace[k].range % meter_per_pixel_ = 0) =>
      /\ trace[k].px = center_.x
      /\ trace[k].py = center_.y + trace[k].range \div meter_per_pixel_
      /\ ColorAt(img, <<center_.x, center_.y + trace[k].range \div meter_per_pixel_>>) = "red"

C6_Witness ==
  /\ FrameEmitted
  /\ \E k \in 1..Len(trace) :
       /\ trace[k].outcome = "drawn" /\ trace[k].angle = 0 /\ trace[k].range = 4
       /\ trace[k].py = center_.y + 2

\* C7: with the writer open, after n scan messages the recording holds
\* exactly n frames, the j-th the frame displayed for the j-th message.
C7_RecordingHoldsEveryFrame ==
  (pc # "start" /\ video_opened) =>
    /\ Len(written) = n_scans
    /\ written = displayed

\* C8: when the writer failed to open, one warning was logged, no callback
\* writes to the writer, and every message's frame is displayed.
C8_DisplayedWithoutRecording ==
  (pc # "start" /\ ~video_opened) =>
    /\ warnings = 1
    /\ written = <<>>
    /\ Len(displayed) = n_scans

\* C9 as stated: in every frame handed to the display and the recorder every
\* pixel of the two crosshair segments is black.
C9_CrosshairAlwaysBlack ==
  /\ \A j \in 1..Len(displayed) :
       \A p \in CrosshairSegments : ColorAt(displayed[j], p) = "black"
  /\ \A j \in 1..Len(written) :
       \A p \in CrosshairSegments : ColorAt(written[j], p) = "black"

\* C9, amended: in the frame handed to the display and the recorder a pixel
\* of the crosshair segments is red when a disc drawn for a sample of that
\* message covers it (a centre within 2 pixels) and black otherwise.
C9_CrosshairUnderDiscs ==
  Completed =>
    /\ FrameEmitted
    /\ \A p \in CrosshairSegments :
         ColorAt(displayed[Len(displayed)], p) =
           IF \E c \in DrawnCentres : Abs(p[1] - c[1]) + Abs(p[2] - c[2]) <= 2
           THEN "red" ELSE "black"

C9_Witness ==
  /\ FrameEmitted
  /\ ColorAt(displayed[Len(displayed)], <<center_.x, center_.y>>) = "red"
  /\ ColorAt(displayed[Len(displayed)], <<center_.x - 5, center_.y>>) = "black"

\* C10: the frame of a message does not depend on the messages before it:
\* a message delivered again right after itself gives the identical frame,
\* and the callback leaves img_size_, meter_per_pixel_ and center_ alone.
C10_SameMessageSameFrame ==
  [][(n_scans > 0 /\ pc = "spinning" /\ n_scans' = n_scans + 1
        /\ scan' = scan /\ pc' = "spinning")
       => (/\ img' = img
           /\ img_size_' = img_size_
           /\ meter_per_pixel_' = meter_per_pixel_
           /\ center_' = center_)]_vars

----------------------------------------------------------------------------
\* What holds of the sinks and of the configuration in every run.

\* In a run without a fault every message has its frame displayed, and with
\* the writer open written, in arrival order.
RecordingInOrder ==
  (pc \in {"spinning", "done"}) =>
    /\ Len(displayed) = n_scans
    /\ video_opened => written = displayed

\* A fault costs the frame of the faulting message only.
FaultLosesOneFrame ==
  pc = "crashed" => (Len(displayed) = n_scans - 1 /\ (video_opened => written = displayed))

\* A writer that failed to open is warned about once and never written to.
WriterStaysClosed ==
  (pc # "start" /\ ~video_opened) => (warnings = 1 /\ written = <<>>)

\* The view configuration is set by the constructor and never changes.
ConfigFixed ==
  pc # "start" =>
    /\ img_size_ = 500
    /\ meter_per_pixel_ = 2
    /\ center_ = [x |-> 250, y |-> 250]
    /\ warnings = IF video_opened THEN 0 ELSE 1

====
